---- MODULE Spec2Model ----
(***************************************************************************)
(* Model of the comic-library backend: the Express handlers of             *)
(* src/server.js and of the second server file src/unnamed/part_000, and   *)
(* the PostgreSQL store they talk to (tables categories and comics, their  *)
(* constraints, and the explicitly checked-out pool connections).          *)
(*                                                                         *)
(* The two files are two servers for the same routes.  A behaviour runs    *)
(* one of them (variable impl) against a store that starts empty.          *)
(* Every handler is one action.  A store statement can fail for a reason   *)
(* the handler does not control (store unreachable, connection dropped):   *)
(* that is the input "fail", naming the statement that raises.             *)
(***************************************************************************)
EXTENDS Integers, Sequences, FiniteSets, TLC

VARIABLES
    impl,        \* which server file runs: "server" (src/server.js) or "part000"
    db,          \* the store: tables, rows and constraints
    clock,       \* the store's NOW()
    checkedOut,  \* pool clients obtained with pool.connect() and not yet released
    resp,        \* the last request and the response it was given (msg: the
                 \* message text its body carries)
    statsRun,    \* a GET /api/stats in flight: the query it is at, its results so far
    initRuns,    \* the executions of initializeDatabase in flight, statement by statement
    putRuns      \* the PUT /api/comics/:id requests received, executed or not yet

\* The requests in flight between two of their store statements
runs == <<statsRun, initRuns, putRuns>>

vars == <<impl, db, clock, checkedOut, resp, statsRun, initRuns, putRuns>>

-----------------------------------------------------------------------------
(* Bounds of the model *)

MaxClock == 1       \* NOW() ranges over 0..MaxClock
PoolMax == 2        \* clients the pool hands out before pool.connect() waits
MaxPuts == 2        \* PUT requests received over a run

-----------------------------------------------------------------------------
(* JavaScript and SQL values *)

Undef == "undefined"     \* a field absent from the request body
Null == "null"           \* JSON null / SQL NULL

\* !v of JavaScript, for the values a JSON string field can take
Falsy(v) == v \in {Undef, Null, ""}

\* v || d of JavaScript
OrElse(v, d) == IF Falsy(v) THEN d ELSE v

\* node-postgres sends undefined and null parameters as SQL NULL
ToSql(v) == IF v \in {Undef, Null} THEN Null ELSE v

\* COALESCE(p, old) of SQL
Coalesce(p, old) == IF p = Null THEN old ELSE p

\* The fixed text of the 500 answers: { error: 'Internal server error' }
GenericError == "Internal server error"

\* error.message: the text of the exception the store client raised
ErrorText == "error.message"

\* a JavaScript array of strings as the TEXT[] literal node-postgres sends
PgArray(a) == CASE a = "[]" -> "{}"
                [] a = "[t]" -> "{t}"
                [] OTHER -> ToSql(a)

-----------------------------------------------------------------------------
(* The default categories, in source order; a category is known by its     *)
(* category_id                                                             *)

DefaultCategories ==
    << "hoc-duong", "mat-the", "he-thong", "xay-dung", "di-gioi", "kinh-doanh",
       "trung-sinh", "ngon", "tu-tien", "do-thi", "phan-dien", "vo-han-luu",
       "manh", "quy-than", "ecchi", "phim" >>

\* The same categories ordered by their name column (code point order of
\* the names: DI GIOI, ECCHI, HE THONG, HOC DUONG, KINH DOANH, MANH, MAT THE,
\* NGON, PHIM, PHAN DIEN, QUY THAN, TRUNG SINH, TU TIEN, VO HAN LUU,
\* XAY DUNG, DO THI with their diacritics)
NameOrder ==
    << "di-gioi", "ecchi", "he-thong", "hoc-duong", "kinh-doanh", "manh",
       "mat-the", "ngon", "phim", "phan-dien", "quy-than", "trung-sinh",
       "tu-tien", "vo-han-luu", "xay-dung", "do-thi" >>

Range(s) == {s[i] : i \in 1..Len(s)}

-----------------------------------------------------------------------------
(* The store *)

\* The store before any table exists
EmptyDb ==
    [ categoriesTable |-> FALSE,   \* table categories exists
      comicsTable     |-> FALSE,   \* table comics exists
      categories      |-> <<>>,    \* category_id of each row, in insertion order
      fkey            |-> FALSE,   \* constraint comics_category_id_fkey exists
      titleKey        |-> FALSE,   \* a unique index on comics (title, category_id) exists
      comics          |-> {} ]     \* the rows of comics

\* The column sets of comics that carry a UNIQUE constraint or index. The
\* table initializeDatabase creates has comic_id only (id is the serial key,
\* not modelled); a comics table made before the server ran is kept as it
\* is by CREATE TABLE IF NOT EXISTS and may carry one on (title, category_id)
ComicsUniqueKeys(d) ==
    { <<"comic_id">> } \cup
    (IF d.titleKey THEN { <<"title", "category_id">> } ELSE {})

\* Another row of d than the one with comic_id id holds the title and
\* category_id of row, against a unique index on (title, category_id)
TitleKeyViolated(d, row, id) ==
    /\ <<"title", "category_id">> \in ComicsUniqueKeys(d)
    /\ \E c \in d.comics :
          /\ c.comic_id # id
          /\ c.title = row.title /\ c.category_id = row.category_id

\* A foreign key comics(category_id) -> categories(category_id) can be added
\* only when every comic row references an existing category
FkeyAddable(d) ==
    \A c \in d.comics : c.category_id \in Range(d.categories)

\* No GET /api/stats in flight
StatsIdle ==
    [pc |-> "idle", comics |-> FALSE, cats |-> FALSE, total |-> 0, reading |-> 0, ncat |-> 0]

\* The two callers of initializeDatabase(): the app.listen callback and the
\* GET /api/categories handler that found no categories table
InitRunIds == {"start", "lazy"}

\* An execution of initializeDatabase not begun: the statement it is at, the
\* count it read, the default categories its loop has gone through
InitIdle == [pc |-> "idle", count |-> 0, k |-> 0]

Init ==
    /\ impl \in {"server", "part000"}
    /\ db = EmptyDb
    /\ clock = 0
    /\ checkedOut = 0
    /\ resp = [op |-> "start", status |-> 0, msg |-> "", err |-> FALSE]
    /\ statsRun = StatsIdle
    /\ initRuns = [r \in InitRunIds |-> InitIdle]
    /\ putRuns = <<>>

\* The store was set up before the server ran: a comics table with a unique
\* index on (title, category_id), the one ON CONFLICT (title, category_id)
\* of the import statement names
ProvisionComics ==
    /\ ~db.comicsTable
    /\ db' = [db EXCEPT !.comicsTable = TRUE, !.titleKey = TRUE]
    /\ resp' = [op |-> "provision", status |-> 0, msg |-> "", err |-> FALSE]
    /\ UNCHANGED <<runs, impl, clock, checkedOut>>

\* Time passes at the store
Tick ==
    /\ clock < MaxClock
    /\ clock' = clock + 1
    /\ UNCHANGED <<runs, impl, db, checkedOut, resp>>

\* Every request needs a pool client; with PoolMax clients checked out and
\* never released, pool.connect() and pool.query() wait for ever
PoolFree == checkedOut < PoolMax

-----------------------------------------------------------------------------
(* initializeDatabase *)

NoFail == [at |-> "none", k |-> 0]

\* The statements of initializeDatabase at which the store may fail; a seed
\* failure at k strikes the k-th INSERT of the seeding loop
SeedFailAt == {1, 9, 16}

InitFailsServer ==
    {[at |-> a, k |-> 0] :
        a \in {"none", "connect", "createCategories", "createComics", "count", "fkey"}}
    \cup {[at |-> "seed", k |-> k] : k \in SeedFailAt}

InitFailsPart000 ==
    {[at |-> a, k |-> 0] :
        a \in {"none", "createCategories", "createComics", "count"}}
    \cup {[at |-> "seed", k |-> k] : k \in SeedFailAt}

\* INSERT INTO categories ... ON CONFLICT (category_id) DO NOTHING
InsertCategoryDoNothing(cats, id) ==
    IF id \in Range(cats) THEN cats ELSE Append(cats, id)

\* The seeding loop of src/server.js over the first n default categories
RECURSIVE SeedServer(_, _)
SeedServer(cats, n) ==
    IF n = 0 THEN cats
    ELSE InsertCategoryDoNothing(SeedServer(cats, n - 1), DefaultCategories[n])

\* The number of default categories the loop inserts before it stops
SeedCount(f) == IF f.at = "seed" THEN f.k - 1 ELSE Len(DefaultCategories)

\* The DO $$ ... $$ block: adds comics_category_id_fkey when it is missing;
\* the statement raises when rows violate the constraint (or the store
\* fails), the handler swallows that and the constraint stays absent
AttachForeignKey(d, f) ==
    IF d.fkey THEN d
    ELSE IF f.at # "fkey" /\ FkeyAddable(d) THEN [d EXCEPT !.fkey = TRUE]
    ELSE d

\* Mutant of InitDbServer: the seeding loop runs whatever the count says
InitDbServerAlwaysSeed(d, f) ==
    LET d1 == [d EXCEPT !.categoriesTable = TRUE]
        d2 == [d1 EXCEPT !.comicsTable = TRUE]
        d3 == [d2 EXCEPT !.categories = SeedServer(d2.categories, SeedCount(f))]
    IN  CASE f.at \in {"connect", "createCategories"} -> d
          [] f.at = "createComics" -> d1
          [] f.at = "count" -> d2
          [] f.at = "seed" -> d3
          [] OTHER -> AttachForeignKey(d3, f)

\* initializeDatabase of src/server.js on store d, the store failing at f
InitDbServer(d, f) ==
    LET d1 == [d EXCEPT !.categoriesTable = TRUE]
        d2 == [d1 EXCEPT !.comicsTable = TRUE]
        d3 == IF Len(d2.categories) = 0
              THEN [d2 EXCEPT !.categories = SeedServer(d2.categories, SeedCount(f))]
              ELSE d2
    IN  CASE f.at \in {"connect", "createCategories"} -> d
          [] f.at = "createComics" -> d1
          [] f.at = "count" -> d2
          [] f.at = "seed" /\ Len(d2.categories) = 0 -> d3
          [] OTHER -> AttachForeignKey(d3, f)

\* The seeding loop of src/unnamed/part_000: a plain INSERT, which raises on
\* a category_id already present (UNIQUE) and so ends the loop
RECURSIVE SeedPart000(_, _)
SeedPart000(cats, n) ==
    IF n = 0 THEN cats
    ELSE LET before == SeedPart000(cats, n - 1)
         IN  IF Len(before) < Len(cats) + (n - 1) \/ DefaultCategories[n] \in Range(before)
             THEN before
             ELSE Append(before, DefaultCategories[n])

\* initializeDatabase of src/unnamed/part_000: the comics table is created
\* with its foreign key
InitDbPart000(d, f) ==
    LET d1 == [d EXCEPT !.categoriesTable = TRUE]
        d2 == IF d1.comicsTable THEN d1
              ELSE [d1 EXCEPT !.comicsTable = TRUE, !.fkey = TRUE]
        d3 == IF Len(d2.categories) = 0
              THEN [d2 EXCEPT !.categories = SeedPart000(d2.categories, SeedCount(f))]
              ELSE d2
    IN  CASE f.at = "createCategories" -> d
          [] f.at = "createComics" -> d1
          [] f.at = "count" -> d2
          [] OTHER -> d3

InitDb(i, d, f) == IF i = "server" THEN InitDbServer(d, f) ELSE InitDbPart000(d, f)

InitFails(i) == IF i = "server" THEN InitFailsServer ELSE InitFailsPart000

\* src/server.js takes a client with pool.connect() and releases it in the
\* finally block; src/unnamed/part_000 uses pool.query() only
InitCheckedOut(i, n, f) ==
    IF i = "server" /\ f.at # "connect" THEN (n + 1) - 1 ELSE n

\* A call of initializeDatabase(): the app.listen callback
InitializeDatabase(f) ==
    /\ PoolFree
    /\ db' = InitDb(impl, db, f)
    /\ checkedOut' = InitCheckedOut(impl, checkedOut, f)
    /\ resp' = [op |-> "init", status |-> 0, msg |-> "", err |-> f.at # "none", fail |-> f]
    /\ UNCHANGED <<runs, impl, clock>>

-----------------------------------------------------------------------------
(* Requests on comics *)

\* The comic_id values `comic_${Date.now()}_${random}` produces here (two
\* requests can draw the same one)
GenIds == {"c1", "c2"}

\* The ids requests name: the generated ones and one no row ever carries
ComicIds == GenIds \cup {"c3"}

MkBody(t, c, s, ch, r, tg, d) ==
    [ title |-> t, category_id |-> c, subcategory |-> s, chapter |-> ch,
      rating |-> r, tags |-> tg, description |-> d ]

\* Request bodies of POST /api/comics
CreateBodies ==
    { MkBody("A", "ngon", Undef, Undef, Undef, Undef, Undef),
      MkBody("b", "tu-tien", "s", "5", "good", "[t]", "ab"),
      MkBody("A", "zz", "s", "0", Undef, Undef, Undef),
      MkBody("", "ngon", Undef, "5", Undef, Undef, Undef),
      MkBody(Undef, "ngon", Undef, Undef, Undef, Undef, Undef),
      MkBody("A", Undef, Undef, Undef, Undef, Undef, Undef),
      MkBody("A", "", "s", Undef, Undef, Undef, Undef) }

MkPartial(ch, r, t, tg, d) ==
    [ chapter |-> ch, rating |-> r, title |-> t, tags |-> tg, description |-> d ]

\* Request bodies of PUT /api/comics/:id: nothing supplied, chapter alone,
\* every column but chapter (chapter sent as null)
UpdateBodies ==
    { MkPartial(Undef, Undef, Undef, Undef, Undef),
      MkPartial("7", Undef, Undef, Undef, Undef),
      MkPartial(Null, "good", "b", "[t]", "ab") }

\* The chapter field of PATCH /api/comics/:id/chapter
PatchChapters == {Undef, "7"}

\* The row an INSERT builds from its eight parameters; last_updated is NOW()
\* and created_at defaults to CURRENT_TIMESTAMP
NewRow(id, t, c, s, ch, r, tg, d, now) ==
    [ comic_id |-> id, title |-> t, category_id |-> c, subcategory |-> s,
      chapter |-> ch, rating |-> r, tags |-> tg, description |-> d,
      last_updated |-> now, created_at |-> now ]

\* The parameters POST /api/comics of src/server.js binds
CreateRowServer(b, id, now) ==
    NewRow(id, ToSql(b.title), ToSql(b.category_id), OrElse(b.subcategory, ""),
           OrElse(b.chapter, ""), OrElse(b.rating, "none"),
           PgArray(OrElse(b.tags, "[]")), OrElse(b.description, ""), now)

\* The parameters POST /api/comics of src/unnamed/part_000 binds: chapter is
\* passed as it came
CreateRowPart000(b, id, now) ==
    NewRow(id, ToSql(b.title), ToSql(b.category_id), OrElse(b.subcategory, ""),
           ToSql(b.chapter), OrElse(b.rating, "none"),
           PgArray(OrElse(b.tags, "[]")), OrElse(b.description, ""), now)

\* Whether the store rejects the insertion of row into comics: table
\* missing, NOT NULL on title and category_id, UNIQUE on comic_id and on
\* (title, category_id) where that index exists, the foreign key when it
\* exists
InsertRejected(d, row) ==
    \/ ~d.comicsTable
    \/ row.title = Null
    \/ row.category_id = Null
    \/ \E c \in d.comics : c.comic_id = row.comic_id
    \/ TitleKeyViolated(d, row, row.comic_id)
    \/ d.fkey /\ row.category_id \notin Range(d.categories)

\* The validation of POST /api/comics: src/server.js requires title and
\* category_id, src/unnamed/part_000 validates nothing
CreateInvalid(i, b) == i = "server" /\ (Falsy(b.title) \/ Falsy(b.category_id))

CreateRow(i, b, id, now) ==
    IF i = "server" THEN CreateRowServer(b, id, now) ELSE CreateRowPart000(b, id, now)

\* POST /api/comics
CreateComic(b, id, fail) ==
    /\ PoolFree
    /\ LET row == CreateRow(impl, b, id, clock)
       IN  IF CreateInvalid(impl, b)
           THEN /\ resp' = [op |-> "create", status |-> 400, msg |-> "Title and category_id are required", err |-> FALSE,
                            req |-> b, id |-> id]
                /\ db' = db
           ELSE IF fail \/ InsertRejected(db, row)
           THEN /\ resp' = [op |-> "create", status |-> 500, msg |-> GenericError, err |-> TRUE,
                            req |-> b, id |-> id]
                /\ db' = db
           ELSE /\ resp' = [op |-> "create", status |-> 201, msg |-> "", err |-> FALSE,
                            req |-> b, id |-> id]
                /\ db' = [db EXCEPT !.comics = @ \cup {row}]
    /\ UNCHANGED <<runs, impl, clock, checkedOut>>

\* Mutant of RowsById: the WHERE clause lost, every row selected
RowsByIdNoWhere(d, id) == d.comics

\* The rows WHERE comic_id = $n selects
RowsById(d, id) == {c \in d.comics : c.comic_id = id}

\* GET /api/comics/:id
GetComic(id, fail) ==
    /\ PoolFree
    /\ IF fail \/ ~db.comicsTable
       THEN resp' = [op |-> "get", status |-> 500, msg |-> GenericError, err |-> TRUE, id |-> id, body |-> {}]
       ELSE IF RowsById(db, id) = {}
       THEN resp' = [op |-> "get", status |-> 404, msg |-> "Comic not found", err |-> FALSE, id |-> id, body |-> {}]
       ELSE resp' = [op |-> "get", status |-> 200, msg |-> "", err |-> FALSE, id |-> id,
                     body |-> RowsById(db, id)]
    /\ UNCHANGED <<runs, impl, db, clock, checkedOut>>

\* Mutant of MergeRow: rating assigned without COALESCE
MergeRowOverwrite(c, p, now) ==
    [c EXCEPT !.chapter = Coalesce(ToSql(p.chapter), @),
              !.rating = ToSql(p.rating),
              !.title = Coalesce(ToSql(p.title), @),
              !.tags = Coalesce(PgArray(p.tags), @),
              !.description = Coalesce(ToSql(p.description), @),
              !.last_updated = now]

\* UPDATE comics SET chapter = COALESCE($1, chapter), ..., last_updated = NOW()
MergeRow(c, p, now) ==
    [c EXCEPT !.chapter = Coalesce(ToSql(p.chapter), @),
              !.rating = Coalesce(ToSql(p.rating), @),
              !.title = Coalesce(ToSql(p.title), @),
              !.tags = Coalesce(PgArray(p.tags), @),
              !.description = Coalesce(ToSql(p.description), @),
              !.last_updated = now]

\* PUT /api/comics/:id
UpdateComic(id, p, fail) ==
    /\ PoolFree
    /\ IF \/ fail
          \/ ~db.comicsTable
          \/ \E c \in RowsById(db, id) : TitleKeyViolated(db, MergeRow(c, p, clock), id)
       THEN /\ resp' = [op |-> "update", status |-> 500, msg |-> GenericError, err |-> TRUE, id |-> id, req |-> p]
            /\ db' = db
       ELSE IF RowsById(db, id) = {}
       THEN /\ resp' = [op |-> "update", status |-> 404, msg |-> "Comic not found", err |-> FALSE, id |-> id, req |-> p]
            /\ db' = db
       ELSE /\ resp' = [op |-> "update", status |-> 200, msg |-> "", err |-> FALSE, id |-> id, req |-> p]
            /\ db' = [db EXCEPT !.comics =
                        {IF c.comic_id = id THEN MergeRow(c, p, clock) ELSE c : c \in @}]
    /\ UNCHANGED <<runs, impl, clock, checkedOut>>

\* PUT /api/comics/:id with other requests in flight: a request is
\* received, and its one UPDATE statement runs at the store at some later
\* time, after or before the statements of the requests received meanwhile.
\* seen is the row as it was when the request was received (the handler
\* never reads it), order the rank of its statement among those executed.
PutReceive(id, p) ==
    /\ Len(putRuns) < MaxPuts
    /\ putRuns' = Append(putRuns, [id |-> id, req |-> p, seen |-> RowsById(db, id),
                                   pc |-> "pending", status |-> 0, order |-> 0])
    /\ resp' = resp
    /\ UNCHANGED <<statsRun, initRuns, impl, db, clock, checkedOut>>

\* Mutant of UpdateTarget: the handler merges into the row it saw on
\* receipt and writes the result back
UpdateTargetSeen(c, seen) == IF seen = {} THEN c ELSE CHOOSE s \in seen : TRUE

\* The row the UPDATE ... WHERE comic_id = $6 merges the parameters into:
\* the row of the store when the statement runs
UpdateTarget(c, seen) == c

PutDone(n, st) ==
    [putRuns EXCEPT ![n].pc = "done", ![n].status = st,
                    ![n].order = 1 + Cardinality({m \in DOMAIN putRuns : putRuns[m].pc = "done"})]

\* The UPDATE statement of the n-th request received, and its answer
PutExecute(n) ==
    LET id == putRuns[n].id
        p == putRuns[n].req
        merged(c) == MergeRow(UpdateTarget(c, putRuns[n].seen), p, clock)
    IN  /\ n \in DOMAIN putRuns
        /\ putRuns[n].pc = "pending"
        /\ PoolFree
        /\ IF \/ ~db.comicsTable
              \/ \E c \in RowsById(db, id) : TitleKeyViolated(db, merged(c), id)
           THEN /\ resp' = [op |-> "update", status |-> 500, msg |-> GenericError, err |-> TRUE, id |-> id, req |-> p]
                /\ db' = db
                /\ putRuns' = PutDone(n, 500)
           ELSE IF RowsById(db, id) = {}
           THEN /\ resp' = [op |-> "update", status |-> 404, msg |-> "Comic not found", err |-> FALSE, id |-> id, req |-> p]
                /\ db' = db
                /\ putRuns' = PutDone(n, 404)
           ELSE /\ resp' = [op |-> "update", status |-> 200, msg |-> "", err |-> FALSE, id |-> id, req |-> p]
                /\ db' = [db EXCEPT !.comics =
                            {IF c.comic_id = id THEN merged(c) ELSE c : c \in @}]
                /\ putRuns' = PutDone(n, 200)
        /\ UNCHANGED <<statsRun, initRuns, impl, clock, checkedOut>>

\* The validation of PATCH /api/comics/:id/chapter: src/server.js requires
\* chapter, src/unnamed/part_000 validates nothing
PatchInvalid(i, ch) == i = "server" /\ Falsy(ch)

\* UPDATE comics SET chapter = $1, last_updated = NOW()
PatchRow(c, ch, now) == [c EXCEPT !.chapter = ToSql(ch), !.last_updated = now]

\* PATCH /api/comics/:id/chapter
PatchChapter(id, ch, fail) ==
    /\ PoolFree
    /\ IF PatchInvalid(impl, ch)
       THEN /\ resp' = [op |-> "patch", status |-> 400, msg |-> "Chapter is required", err |-> FALSE, id |-> id, req |-> ch]
            /\ db' = db
       ELSE IF fail \/ ~db.comicsTable
       THEN /\ resp' = [op |-> "patch", status |-> 500, msg |-> GenericError, err |-> TRUE, id |-> id, req |-> ch]
            /\ db' = db
       ELSE IF RowsById(db, id) = {}
       THEN /\ resp' = [op |-> "patch", status |-> 404, msg |-> "Comic not found", err |-> FALSE, id |-> id, req |-> ch]
            /\ db' = db
       ELSE /\ resp' = [op |-> "patch", status |-> 200, msg |-> "", err |-> FALSE, id |-> id, req |-> ch]
            /\ db' = [db EXCEPT !.comics =
                        {IF c.comic_id = id THEN PatchRow(c, ch, clock) ELSE c : c \in @}]
    /\ UNCHANGED <<runs, impl, clock, checkedOut>>

\* Mutant of DeleteRows: the WHERE clause lost, every row deleted
DeleteRowsNoWhere(d, id) == [d EXCEPT !.comics = {}]

\* DELETE FROM comics WHERE comic_id = $1
DeleteRows(d, id) == [d EXCEPT !.comics = @ \ RowsById(d, id)]

\* DELETE /api/comics/:id
DeleteComic(id, fail) ==
    /\ PoolFree
    /\ IF fail \/ ~db.comicsTable
       THEN /\ resp' = [op |-> "delete", status |-> 500, msg |-> GenericError, err |-> TRUE, id |-> id]
            /\ db' = db
       ELSE IF RowsById(db, id) = {}
       THEN /\ resp' = [op |-> "delete", status |-> 404, msg |-> "Comic not found", err |-> FALSE, id |-> id]
            /\ db' = db
       ELSE /\ resp' = [op |-> "delete", status |-> 204, msg |-> "", err |-> FALSE, id |-> id]
            /\ db' = DeleteRows(db, id)
    /\ UNCHANGED <<runs, impl, clock, checkedOut>>

-----------------------------------------------------------------------------
(* Bulk import *)

\* The entries of the request bodies of POST /api/comics/import
ImportEntry(ch) == MkBody("A", "ngon", Undef, ch, Undef, Undef, Undef)

OtherEntry == MkBody("b", "tu-tien", "s", "5", "good", "[t]", "ab")

\* The comics field of the request body: not an array, or a sequence
ImportBodies ==
    {[isArray |-> FALSE, items |-> <<>>]}
    \cup {[isArray |-> TRUE, items |-> s] :
            s \in { <<>>,
                    <<ImportEntry("1")>>,
                    <<ImportEntry("1"), ImportEntry("2")>>,
                    <<ImportEntry("3")>>,
                    <<OtherEntry, ImportEntry("3")>>,
                    <<ImportEntry("1"), OtherEntry, ImportEntry("2")>> }}

\* The comic_id generated for each entry of a request
ImportIds == { <<"c1", "c2", "c1">>, <<"c2", "c1", "c2">>, <<"c1", "c1", "c2">> }

\* The entry at which the store may fail (0: at none)
ImportFailAt == 0..3

\* Array.isArray(comics)
IsArray(a) == a.isArray

\* ON CONFLICT (title, category_id) names these columns
ConflictTarget == <<"title", "category_id">>

\* PostgreSQL plans ON CONFLICT (cols) only against a unique index or
\* constraint on exactly those columns; without one the statement raises
ArbiterExists(d) == ConflictTarget \in ComicsUniqueKeys(d)

\* The parameters the import statement binds for an entry
ImportRow(e, id, now) ==
    NewRow(id, ToSql(e.title), ToSql(e.category_id), OrElse(e.subcategory, ""),
           ToSql(e.chapter), OrElse(e.rating, "none"),
           PgArray(OrElse(e.tags, "[]")), OrElse(e.description, ""), now)

\* The rows the new row conflicts with on (title, category_id)
ConflictRows(d, row) ==
    {c \in d.comics : c.title = row.title /\ c.category_id = row.category_id}

\* Mutant of ConflictUpdate: the conflicting row is replaced by the
\* proposed one, every column set from EXCLUDED
ConflictUpdateReplace(c, row) == row

\* DO UPDATE SET chapter = EXCLUDED.chapter, rating = EXCLUDED.rating,
\* last_updated = NOW()
ConflictUpdate(c, row) ==
    [c EXCEPT !.chapter = row.chapter, !.rating = row.rating,
              !.last_updated = row.last_updated]

\* INSERT ... ON CONFLICT (title, category_id) DO UPDATE ... RETURNING *
\* on store d: whether it succeeds, and the store after it
Upsert(d, row) ==
    IF ~d.comicsTable \/ ~ArbiterExists(d) \/ row.title = Null \/ row.category_id = Null
    THEN [ok |-> FALSE, db |-> d]
    ELSE IF ConflictRows(d, row) # {}
    THEN [ok |-> TRUE,
          db |-> [d EXCEPT !.comics =
                    {IF c \in ConflictRows(d, row) THEN ConflictUpdate(c, row) ELSE c
                        : c \in @}]]
    ELSE IF InsertRejected(d, row)
    THEN [ok |-> FALSE, db |-> d]
    ELSE [ok |-> TRUE, db |-> [d EXCEPT !.comics = @ \cup {row}]]

\* Mutant of ImportLoop: the statement that raises is caught inside the
\* loop, which carries on with the entries after it
RECURSIVE ImportLoopSkip(_, _, _, _, _, _)
ImportLoopSkip(d, entries, ids, k, failAt, now) ==
    IF k > Len(entries)
    THEN [ok |-> TRUE, db |-> d, done |-> Len(entries), fault |-> FALSE]
    ELSE LET r == Upsert(d, ImportRow(entries[k], ids[k], now))
         IN  IF k = failAt \/ ~r.ok
             THEN [ok |-> FALSE,
                   db |-> ImportLoopSkip(d, entries, ids, k + 1, failAt, now).db,
                   done |-> k - 1, fault |-> k = failAt]
             ELSE ImportLoopSkip(r.db, entries, ids, k + 1, failAt, now)

\* The for loop over the entries from the k-th on: each statement commits
\* on its own, the first one that raises ends the loop; the store fails at
\* entry failAt (0: never)
RECURSIVE ImportLoop(_, _, _, _, _, _)
ImportLoop(d, entries, ids, k, failAt, now) ==
    IF k > Len(entries)
    THEN [ok |-> TRUE, db |-> d, done |-> Len(entries), fault |-> FALSE]
    ELSE LET r == Upsert(d, ImportRow(entries[k], ids[k], now))
         IN  IF k = failAt \/ ~r.ok
             THEN [ok |-> FALSE, db |-> d, done |-> k - 1, fault |-> k = failAt]
             ELSE ImportLoop(r.db, entries, ids, k + 1, failAt, now)

\* POST /api/comics/import. The body reports the rows imported (imported)
\* on success only; done (the entries whose statement succeeded) and fault
\* (the store failed the last statement) record what happened and are not
\* sent
BulkImport(entries, ids, failAt) ==
    /\ PoolFree
    /\ IF ~IsArray(entries)
       THEN /\ resp' = [op |-> "import", status |-> 400,
                        msg |-> "Invalid data format", err |-> FALSE,
                        req |-> entries, imported |-> 0, done |-> 0, fault |-> FALSE]
            /\ db' = db
       ELSE LET r == ImportLoop(db, entries.items, ids, 1, failAt, clock)
            IN  /\ resp' = [op |-> "import", status |-> IF r.ok THEN 200 ELSE 500,
                            msg |-> IF r.ok THEN "" ELSE GenericError,
                            err |-> ~r.ok, req |-> entries,
                            imported |-> IF r.ok THEN r.done ELSE 0,
                            done |-> r.done, fault |-> r.fault]
                /\ db' = r.db
    /\ UNCHANGED <<runs, impl, clock, checkedOut>>

-----------------------------------------------------------------------------
(* Categories, statistics, diagnostics *)

\* SELECT * FROM categories ORDER BY name
CategoriesByName(d) ==
    SelectSeq(NameOrder, LAMBDA id : id \in Range(d.categories))

\* The statements of GET /api/categories at which the store may fail
CategoriesFails == {"none", "exists", "select"}

\* GET /api/categories of src/server.js: a missing table has it call
\* initializeDatabase() (the store failing there at f); an empty result and
\* every error are answered with the default list
ListCategoriesServer(fail, f) ==
    LET d1 == IF fail # "exists" /\ ~db.categoriesTable THEN InitDb("server", db, f) ELSE db
        raised == fail # "none" \/ ~d1.categoriesTable
    IN  /\ impl = "server"
        /\ db' = d1
        /\ resp' = [op |-> "categories", status |-> 200, msg |-> "", err |-> raised,
                    body |-> IF raised \/ Len(d1.categories) = 0
                             THEN DefaultCategories
                             ELSE CategoriesByName(d1)]

\* GET /api/categories of src/unnamed/part_000: the rows, or 500
ListCategoriesPart000(fail) ==
    LET raised == fail # "none" \/ ~db.categoriesTable
    IN  /\ impl = "part000"
        /\ db' = db
        /\ resp' = [op |-> "categories", status |-> IF raised THEN 500 ELSE 200,
                    msg |-> IF raised THEN GenericError ELSE "",
                    err |-> raised,
                    body |-> IF raised THEN <<>> ELSE CategoriesByName(db)]

\* GET /api/categories
ListCategories(fail, f) ==
    /\ PoolFree
    /\ \/ ListCategoriesServer(fail, f)
       \/ f = NoFail /\ fail # "exists" /\ ListCategoriesPart000(fail)
    /\ UNCHANGED <<runs, impl, clock, checkedOut>>

-----------------------------------------------------------------------------
(* initializeDatabase statement by statement *)

\* Each awaited query of initializeDatabase is one step at the store, and
\* the statements of another execution run between two of them.  The
\* execution "start" is the one of the app.listen callback; the execution
\* "lazy" is the one GET /api/categories of src/server.js begins when its
\* query finds no categories table.
InitStart(r) ==
    /\ initRuns[r].pc = "idle"
    /\ r = "lazy" => impl = "server" /\ PoolFree /\ ~db.categoriesTable
    /\ initRuns' = [initRuns EXCEPT ![r].pc = "connect"]
    /\ resp' = resp
    /\ UNCHANGED <<statsRun, putRuns, impl, db, clock, checkedOut>>

\* The statements of src/unnamed/part_000 go through pool.query(), which
\* needs a free client each time; src/server.js holds its own client
InitClientReady == impl = "server" \/ PoolFree

\* client = await pool.connect() (src/server.js only)
InitConnect(r) ==
    /\ initRuns[r].pc = "connect"
    /\ impl = "server" => PoolFree
    /\ checkedOut' = IF impl = "server" THEN checkedOut + 1 ELSE checkedOut
    /\ initRuns' = [initRuns EXCEPT ![r].pc = "createCategories"]
    /\ resp' = resp
    /\ UNCHANGED <<statsRun, putRuns, impl, db, clock>>

\* CREATE TABLE IF NOT EXISTS categories
InitCreateCategories(r) ==
    /\ initRuns[r].pc = "createCategories"
    /\ InitClientReady
    /\ db' = [db EXCEPT !.categoriesTable = TRUE]
    /\ initRuns' = [initRuns EXCEPT ![r].pc = "createComics"]
    /\ resp' = resp
    /\ UNCHANGED <<statsRun, putRuns, impl, clock, checkedOut>>

\* CREATE TABLE IF NOT EXISTS comics; the table of src/unnamed/part_000 is
\* created with its foreign key
InitCreateComics(r) ==
    /\ initRuns[r].pc = "createComics"
    /\ InitClientReady
    /\ db' = IF db.comicsTable THEN db
             ELSE IF impl = "server" THEN [db EXCEPT !.comicsTable = TRUE]
             ELSE [db EXCEPT !.comicsTable = TRUE, !.fkey = TRUE]
    /\ initRuns' = [initRuns EXCEPT ![r].pc = "count"]
    /\ resp' = resp
    /\ UNCHANGED <<statsRun, putRuns, impl, clock, checkedOut>>

\* Where an execution goes once its seeding is over or skipped: to the DO
\* block of src/server.js, to the end in src/unnamed/part_000
InitAfterSeed == IF impl = "server" THEN "fkey" ELSE "done"

\* SELECT COUNT(*) FROM categories and the test count === 0
InitCount(r) ==
    /\ initRuns[r].pc = "count"
    /\ InitClientReady
    /\ initRuns' = [initRuns EXCEPT ![r].count = Len(db.categories),
                                    ![r].pc = IF Len(db.categories) = 0 THEN "seed"
                                              ELSE InitAfterSeed]
    /\ resp' = resp
    /\ UNCHANGED <<statsRun, putRuns, impl, db, clock, checkedOut>>

\* Mutant of SeedInsertRaises: the INSERT of src/server.js without its ON
\* CONFLICT clause
SeedInsertRaisesPlain(i, cats, id) == id \in Range(cats)

\* The plain INSERT of src/unnamed/part_000 raises on a category_id already
\* present; the INSERT ... ON CONFLICT (category_id) DO NOTHING of
\* src/server.js does not
SeedInsertRaises(i, cats, id) == i = "part000" /\ id \in Range(cats)

\* One turn of the seeding loop: the INSERT of the next default category.
\* When it raises, the catch block ends the execution and the finally block
\* of src/server.js releases the client.
InitSeed(r) ==
    LET id == DefaultCategories[initRuns[r].k + 1]
    IN  /\ initRuns[r].pc = "seed"
        /\ InitClientReady
        /\ IF SeedInsertRaises(impl, db.categories, id)
           THEN /\ db' = db
                /\ checkedOut' = IF impl = "server" THEN checkedOut - 1 ELSE checkedOut
                /\ initRuns' = [initRuns EXCEPT ![r].pc = "aborted"]
           ELSE /\ db' = [db EXCEPT !.categories = InsertCategoryDoNothing(@, id)]
                /\ checkedOut' = checkedOut
                /\ initRuns' = [initRuns EXCEPT
                                  ![r].k = @ + 1,
                                  ![r].pc = IF initRuns[r].k + 1 = Len(DefaultCategories)
                                            THEN InitAfterSeed ELSE "seed"]
        /\ resp' = resp
        /\ UNCHANGED <<statsRun, putRuns, impl, clock>>

\* The DO $$ ... $$ block of src/server.js, whose error the inner catch
\* swallows, and client.release() in the finally block
InitFkey(r) ==
    /\ initRuns[r].pc = "fkey"
    /\ db' = AttachForeignKey(db, NoFail)
    /\ checkedOut' = checkedOut - 1
    /\ initRuns' = [initRuns EXCEPT ![r].pc = "done"]
    /\ resp' = resp
    /\ UNCHANGED <<statsRun, putRuns, impl, clock>>

\* GET /api/categories after its initializeDatabase() has returned: SELECT *
\* FROM categories ORDER BY name and the answer
LazyAnswer ==
    /\ initRuns["lazy"].pc \in {"done", "aborted"}
    /\ PoolFree
    /\ initRuns' = [initRuns EXCEPT !["lazy"].pc = "answered"]
    /\ resp' = [op |-> "categories", status |-> 200, msg |-> "",
                err |-> ~db.categoriesTable,
                body |-> IF ~db.categoriesTable \/ Len(db.categories) = 0
                         THEN DefaultCategories
                         ELSE CategoriesByName(db)]
    /\ UNCHANGED <<statsRun, putRuns, impl, db, clock, checkedOut>>

\* SELECT COUNT(*) FROM comics WHERE chapter IS NOT NULL AND chapter != ''
\* AND chapter != '0'
ReadingCount(d) ==
    Cardinality({c \in d.comics : c.chapter # Null /\ c.chapter # "" /\ c.chapter # "0"})

StatsBody(items, cats, reading) ==
    [totalItems |-> items, totalCategories |-> cats, readingCount |-> reading]

NoBody == StatsBody(-1, -1, -1)

\* The statements of GET /api/stats at which the store may fail
StatsFails == {"none", "exists", "total", "reading", "categories"}

\* GET /api/stats of src/server.js: a missing table is counted as 0 comics
\* and as the default list's length of categories
GetStatsServer(fail) ==
    LET raised == \/ fail = "exists"
                  \/ fail \in {"total", "reading"} /\ db.comicsTable
                  \/ fail = "categories" /\ db.categoriesTable
    IN  /\ impl = "server"
        /\ resp' = [op |-> "stats", status |-> IF raised THEN 500 ELSE 200,
                    msg |-> IF raised THEN GenericError ELSE "",
                    err |-> raised, fault |-> raised,
                    body |-> IF raised THEN NoBody
                             ELSE StatsBody(
                                IF db.comicsTable THEN Cardinality(db.comics) ELSE 0,
                                IF db.categoriesTable THEN Len(db.categories)
                                ELSE Len(DefaultCategories),
                                IF db.comicsTable THEN ReadingCount(db) ELSE 0)]

\* GET /api/stats of src/unnamed/part_000: three counts, a missing table
\* raises
GetStatsPart000(fail) ==
    LET raised == fail # "none" \/ ~db.comicsTable \/ ~db.categoriesTable
    IN  /\ impl = "part000"
        /\ resp' = [op |-> "stats", status |-> IF raised THEN 500 ELSE 200,
                    msg |-> IF raised THEN GenericError ELSE "",
                    err |-> raised, fault |-> fail # "none",
                    body |-> IF raised THEN NoBody
                             ELSE StatsBody(Cardinality(db.comics), Len(db.categories),
                                            ReadingCount(db))]

\* GET /api/stats
GetStats(fail) ==
    /\ PoolFree
    /\ \/ GetStatsServer(fail)
       \/ fail # "exists" /\ GetStatsPart000(fail)
    /\ UNCHANGED <<runs, impl, db, clock, checkedOut>>

\* GET /api/stats statement by statement: each pool.query is one step at the
\* store, and other requests commit between two of them.  The handler of
\* src/server.js first asks which tables exist; the one of
\* src/unnamed/part_000 starts with the count of comics.
StatsBegin ==
    /\ PoolFree
    /\ statsRun.pc = "idle"
    /\ statsRun' = IF impl = "server"
                   THEN [StatsIdle EXCEPT !.pc = IF db.comicsTable THEN "total" ELSE "categories",
                                          !.comics = db.comicsTable,
                                          !.cats = db.categoriesTable]
                   ELSE [StatsIdle EXCEPT !.pc = "total"]
    /\ resp' = resp
    /\ UNCHANGED <<initRuns, putRuns, impl, db, clock, checkedOut>>

\* The answer of the handler once its last count is in
StatsAnswer(total, cats, reading) ==
    [op |-> "stats", status |-> 200, msg |-> "", err |-> FALSE, fault |-> FALSE,
     body |-> StatsBody(total, cats, reading)]

\* The answer of the catch block
StatsRaised ==
    [op |-> "stats", status |-> 500, msg |-> GenericError, err |-> TRUE, fault |-> FALSE,
     body |-> NoBody]

\* SELECT COUNT(*) FROM comics
StatsTotal ==
    /\ PoolFree
    /\ statsRun.pc = "total"
    /\ IF ~db.comicsTable
       THEN /\ statsRun' = StatsIdle
            /\ resp' = StatsRaised
       ELSE /\ statsRun' = [statsRun EXCEPT !.total = Cardinality(db.comics),
                               !.pc = IF impl = "server" THEN "reading" ELSE "categories"]
            /\ resp' = resp
    /\ UNCHANGED <<initRuns, putRuns, impl, db, clock, checkedOut>>

\* SELECT COUNT(*) FROM comics WHERE chapter IS NOT NULL AND chapter != ''
\* AND chapter != '0'; the last query of src/unnamed/part_000
StatsReading ==
    /\ PoolFree
    /\ statsRun.pc = "reading"
    /\ IF impl = "server"
       THEN /\ statsRun' = [statsRun EXCEPT !.reading = ReadingCount(db), !.pc = "categories"]
            /\ resp' = resp
       ELSE /\ statsRun' = StatsIdle
            /\ resp' = StatsAnswer(statsRun.total, statsRun.ncat, ReadingCount(db))
    /\ UNCHANGED <<initRuns, putRuns, impl, db, clock, checkedOut>>

\* SELECT COUNT(*) FROM categories; the last query of src/server.js, which
\* takes the default list's length when it saw no categories table
StatsCategories ==
    /\ PoolFree
    /\ statsRun.pc = "categories"
    /\ IF impl = "server"
       THEN /\ statsRun' = StatsIdle
            /\ resp' = StatsAnswer(statsRun.total,
                                   IF statsRun.cats THEN Len(db.categories)
                                   ELSE Len(DefaultCategories),
                                   statsRun.reading)
       ELSE IF ~db.categoriesTable
       THEN /\ statsRun' = StatsIdle
            /\ resp' = StatsRaised
       ELSE /\ statsRun' = [statsRun EXCEPT !.ncat = Len(db.categories), !.pc = "reading"]
            /\ resp' = resp
    /\ UNCHANGED <<initRuns, putRuns, impl, db, clock, checkedOut>>

\* The statements of GET /api/debug/db at which the store may fail
DebugFails == {"none", "connect", "now", "tables", "count"}

\* information_schema.tables of the public schema
TableNames(d) ==
    {t \in {"categories", "comics"} :
        (t = "categories" /\ d.categoriesTable) \/ (t = "comics" /\ d.comicsTable)}

\* The checked-out clients after GET /api/debug/db: client.release() is
\* reached only when SELECT NOW() and the table listing both succeed
DebugCheckedOut(n, fail) ==
    CASE fail = "connect" -> n
      [] fail \in {"now", "tables"} -> n + 1
      [] OTHER -> (n + 1) - 1

\* GET /api/debug/db (src/server.js only): a failing count is reported in
\* its table's entry (`Error: ${countError.message}`), any other failure is
\* answered 500 with message: error.message
DebugDb(fail) ==
    /\ PoolFree
    /\ impl = "server"
    /\ checkedOut' = DebugCheckedOut(checkedOut, fail)
    /\ resp' = IF fail \in {"connect", "now", "tables"}
               THEN [op |-> "debug", status |-> 500, msg |-> ErrorText, err |-> TRUE, body |-> {}]
               ELSE [op |-> "debug", status |-> 200,
                     msg |-> IF fail = "count" /\ TableNames(db) # {}
                             THEN ErrorText ELSE "",
                     err |-> fail = "count" /\ TableNames(db) # {},
                     body |-> TableNames(db)]
    /\ UNCHANGED <<runs, impl, db, clock>>

-----------------------------------------------------------------------------
(* The schema manager and the read-only resources *)

SchemaBodies ==
    { MkBody("A", "ngon", Undef, Undef, Undef, Undef, Undef),
      MkBody("A", "zz", "s", "0", Undef, Undef, Undef) }

NextSchema ==
    \/ \E f \in InitFailsServer \cup InitFailsPart000 :
          f \in InitFails(impl) /\ InitializeDatabase(f)
    \/ Tick
    \/ \E b \in SchemaBodies, id \in GenIds : CreateComic(b, id, FALSE)
    \/ \E id \in GenIds : PatchChapter(id, "7", FALSE)
    \/ \E id \in GenIds : DeleteComic(id, FALSE)
    \/ \E fail \in CategoriesFails, f \in InitFailsServer : ListCategories(fail, f)
    \/ \E fail \in StatsFails : GetStats(fail)
    \/ \E fail \in DebugFails : DebugDb(fail)

SpecSchema == Init /\ [][NextSchema]_vars

-----------------------------------------------------------------------------
(* The comic resource: create, read, update, patch, delete *)

CrudBodies == CreateBodies \ {MkBody("A", "zz", "s", "0", Undef, Undef, Undef)}

NextCrud ==
    \/ InitializeDatabase(NoFail)
    \/ Tick
    \/ \E b \in CrudBodies, id \in GenIds, fail \in BOOLEAN : CreateComic(b, id, fail)
    \/ \E id \in ComicIds, fail \in BOOLEAN : GetComic(id, fail)
    \/ \E id \in ComicIds, p \in UpdateBodies, fail \in BOOLEAN : UpdateComic(id, p, fail)
    \/ \E id \in ComicIds, ch \in PatchChapters, fail \in BOOLEAN : PatchChapter(id, ch, fail)
    \/ \E id \in ComicIds, fail \in BOOLEAN : DeleteComic(id, fail)

SpecCrud == Init /\ [][NextCrud]_vars

-----------------------------------------------------------------------------
(* Bulk import on a store the server initialised *)

ImportSeedBodies ==
    { MkBody("A", "ngon", Undef, Undef, Undef, Undef, Undef),
      MkBody("b", "tu-tien", "s", "5", "good", "[t]", "ab") }

NextImport ==
    \/ InitializeDatabase(NoFail)
    \/ Tick
    \/ \E b \in ImportSeedBodies, id \in GenIds, fail \in BOOLEAN : CreateComic(b, id, fail)
    \/ \E e \in ImportBodies, ids \in ImportIds, failAt \in ImportFailAt :
          BulkImport(e, ids, failAt)

SpecImport == Init /\ [][NextImport]_vars

-----------------------------------------------------------------------------
(* Bulk import on a store set up with the unique index the import names *)

UpsertSeedBodies == { MkBody("A", "ngon", "s", "5", "good", "[t]", "ab") }

\* The comic_id generated for each entry of a request
UpsertIds == { <<"c1", "c2", "c1">>, <<"c2", "c2", "c1">> }

\* The entry at which the store may fail (0: at none)
UpsertFailAt == {0, 2, 3}

\* Entries of the import requests: the two pairs the seeds use, with other
\* values in every column, and an entry without title
UpsertEntry(n) ==
    CASE n = 1 -> MkBody("A", "ngon", Undef, "1", Undef, Undef, Undef)
      [] n = 2 -> MkBody("A", "ngon", "x", "2", "bad", "[]", "b")
      [] n = 3 -> MkBody("b", "tu-tien", "s", "3", "good", "[t]", "ab")
      [] OTHER -> MkBody(Undef, "ngon", Undef, "1", Undef, Undef, Undef)

UpsertBodies ==
    {[isArray |-> TRUE, items |-> [k \in DOMAIN s |-> UpsertEntry(s[k])]] :
        s \in { <<1>>, <<1, 2>>, <<2, 3>>, <<3, 4, 1>>, <<1, 3, 2>> }}

NextUpsert ==
    \/ ProvisionComics
    \/ InitializeDatabase(NoFail)
    \/ Tick
    \/ \E b \in UpsertSeedBodies, id \in GenIds : CreateComic(b, id, FALSE)
    \/ \E e \in UpsertBodies, ids \in UpsertIds, failAt \in UpsertFailAt :
          BulkImport(e, ids, failAt)

SpecUpsert == Init /\ [][NextUpsert]_vars

-----------------------------------------------------------------------------
(* Listing comics *)

\* The characters of the texts of the model
Chars(t) ==
    CASE t = "" -> <<>>
      [] t = "A" -> <<"A">>
      [] t = "b" -> <<"b">>
      [] t = "ab" -> <<"a", "b">>
      [] t = "a" -> <<"a">>
      [] t = "B" -> <<"B">>
      [] t = "_" -> <<"_">>

\* Case folding of ILIKE
Lower(ch) ==
    CASE ch = "A" -> "a"
      [] ch = "B" -> "b"
      [] OTHER -> ch

\* text LIKE pattern, case-insensitively: % matches any run of characters,
\* _ any one character
RECURSIVE Like(_, _)
Like(t, p) ==
    IF p = <<>> THEN t = <<>>
    ELSE IF Head(p) = "%"
    THEN Like(t, Tail(p)) \/ (t # <<>> /\ Like(Tail(t), p))
    ELSE /\ t # <<>>
         /\ Head(p) = "_" \/ Lower(Head(p)) = Lower(Head(t))
         /\ Like(Tail(t), Tail(p))

\* column ILIKE `%${search}%`; NULL matches nothing
ILike(text, search) ==
    text # Null /\ Like(Chars(text), <<"%">> \o Chars(search) \o <<"%">>)

\* Mutant of Selected: the two conditions joined with OR
SelectedEither(c, q) ==
    \/ Falsy(q.category) \/ c.category_id = q.category
    \/ Falsy(q.search) \/ ILike(c.title, q.search) \/ ILike(c.description, q.search)

\* The WHERE clause GET /api/comics builds: a falsy category or search adds
\* no condition
Selected(c, q) ==
    /\ Falsy(q.category) \/ c.category_id = q.category
    /\ Falsy(q.search) \/ ILike(c.title, q.search) \/ ILike(c.description, q.search)

\* The number a query-string value stands for in `page - 1` and `* limit`
Num(v) ==
    CASE v = "0" -> 0
      [] v = "1" -> 1
      [] v = "2" -> 2
      [] v = "3" -> 3

\* A value that is no number ("x" gives NaN)
NotNumeric(v) == v \notin {"0", "1", "2", "3"}

DefaultLimitServer == 100
DefaultLimitPart000 == 50

DefaultLimit(i) == IF i = "server" THEN DefaultLimitServer ELSE DefaultLimitPart000

\* const { page = 1, limit = ... } = req.query: the default replaces an
\* absent value only
PageOf(q) == IF q.page = Undef THEN 1 ELSE Num(q.page)
LimitOf(i, q) == IF q.limit = Undef THEN DefaultLimit(i) ELSE Num(q.limit)

\* offset = (page - 1) * limit
OffsetOf(i, q) == (PageOf(q) - 1) * LimitOf(i, q)

\* The store rejects a LIMIT or OFFSET that is no number or is negative
QueryRejected(i, q) ==
    \/ q.page # Undef /\ NotNumeric(q.page)
    \/ q.limit # Undef /\ NotNumeric(q.limit)
    \/ LimitOf(i, q) < 0
    \/ OffsetOf(i, q) < 0

\* The orders in which the store may return rows for ORDER BY last_updated
\* DESC: rows with equal last_updated come in an order the store is free
\* to choose, statement by statement
Orders(rows) ==
    {o \in [1..Cardinality(rows) -> rows] :
        /\ \A i, j \in DOMAIN o : i # j => o[i] # o[j]
        /\ \A i, j \in DOMAIN o : i < j => o[i].last_updated >= o[j].last_updated}

Min(a, b) == IF a < b THEN a ELSE b

\* LIMIT limit OFFSET offset of the ordered rows
Window(o, offset, limit) == SubSeq(o, offset + 1, Min(offset + limit, Len(o)))

\* The statements of GET /api/comics at which the store may fail
ListFails == {"none", "exists", "select"}

\* GET /api/comics of src/server.js: a missing table and every error are
\* answered with the empty list
ListComicsServer(q, fail, o) ==
    /\ impl = "server"
    /\ IF fail = "exists"
       THEN resp' = [op |-> "list", status |-> 200, msg |-> "", err |-> TRUE, req |-> q, body |-> <<>>]
       ELSE IF ~db.comicsTable
       THEN resp' = [op |-> "list", status |-> 200, msg |-> "", err |-> FALSE, req |-> q, body |-> <<>>]
       ELSE IF fail = "select" \/ QueryRejected("server", q)
       THEN resp' = [op |-> "list", status |-> 200, msg |-> "", err |-> TRUE, req |-> q, body |-> <<>>]
       ELSE resp' = [op |-> "list", status |-> 200, msg |-> "", err |-> FALSE, req |-> q,
                     body |-> Window(o, OffsetOf("server", q), LimitOf("server", q))]

\* GET /api/comics of src/unnamed/part_000: every error is answered 500
ListComicsPart000(q, fail, o) ==
    /\ impl = "part000"
    /\ fail # "exists"
    /\ IF fail = "select" \/ ~db.comicsTable \/ QueryRejected("part000", q)
       THEN resp' = [op |-> "list", status |-> 500, msg |-> GenericError, err |-> TRUE, req |-> q, body |-> <<>>]
       ELSE resp' = [op |-> "list", status |-> 200, msg |-> "", err |-> FALSE, req |-> q,
                     body |-> Window(o, OffsetOf("part000", q), LimitOf("part000", q))]

\* GET /api/comics; o is the order in which the store returns the selected
\* rows
ListComics(q, fail) ==
    /\ PoolFree
    /\ \E o \in Orders({c \in db.comics : Selected(c, q)}) :
          ListComicsServer(q, fail, o) \/ ListComicsPart000(q, fail, o)
    /\ UNCHANGED <<runs, impl, db, clock, checkedOut>>

\* The query strings of GET /api/comics
ListQueries ==
    [ category : {Undef, "ngon"}, search : {Undef, "a"},
      page : {Undef, "1", "2", "0"}, limit : {Undef, "1", "x"} ]

ListBodies ==
    { MkBody("A", "ngon", Undef, Undef, Undef, Undef, Undef),
      MkBody("b", "ngon", Undef, Undef, Undef, Undef, "ab"),
      MkBody("b", "tu-tien", Undef, Undef, Undef, Undef, Undef) }

NextList ==
    \/ InitializeDatabase(NoFail)
    \/ Tick
    \/ \E b \in ListBodies, id \in GenIds : CreateComic(b, id, FALSE)
    \/ \E q \in ListQueries, fail \in ListFails : ListComics(q, fail)

SpecList == Init /\ [][NextList]_vars

-----------------------------------------------------------------------------
(* Comics grouped by category and subcategory *)

\* The texts of the model in the order ORDER BY puts them (NULL comes last)
TextOrder == <<"", "A", "b", "s", Null>>

TextRank(t) == CHOOSE k \in 1..Len(TextOrder) : TextOrder[k] = t

\* The rows FROM comics c [LEFT] JOIN categories cat yields: the LEFT JOIN of
\* src/server.js keeps every comic, the inner JOIN of src/unnamed/part_000
\* drops the comics whose category_id names no category row
JoinedRows(i, d) ==
    IF i = "server" THEN d.comics
    ELSE {c \in d.comics : c.category_id \in Range(d.categories)}

\* The orders in which json_agg may take the joined rows: by title where the
\* aggregate says ORDER BY c.title (src/server.js), in any order where it
\* does not (src/unnamed/part_000)
ItemOrders(i, rows) ==
    {o \in [1..Cardinality(rows) -> rows] :
        /\ \A j, k \in DOMAIN o : j # k => o[j] # o[k]
        /\ i = "server" =>
             \A j, k \in DOMAIN o : j < k => TextRank(o[j].title) <= TextRank(o[k].title)}

\* json_build_object('id', c.comic_id, 'title', c.title, ...)
GroupItem(c) ==
    [ id |-> c.comic_id, title |-> c.title, chapter |-> c.chapter,
      rating |-> c.rating, tags |-> c.tags, description |-> c.description,
      lastUpdated |-> c.last_updated ]

\* One result row of GROUP BY c.category_id, cat.name, c.subcategory for
\* category cat and subcategory sub, pushed as {subcategory: row.subcategory
\* || '', items: row.items}
GroupOf(o, cat, sub) ==
    [ subcategory |-> OrElse(sub, ""),
      items |-> [k \in DOMAIN
                    SelectSeq(o, LAMBDA c : c.category_id = cat /\ c.subcategory = sub)
                 |-> GroupItem(SelectSeq(o, LAMBDA c :
                                  c.category_id = cat /\ c.subcategory = sub)[k])] ]

\* groupedData: for every category_id of the result its groups, in the
\* order ORDER BY cat.name, c.subcategory gives them
GroupedData(o) ==
    [ cat \in {o[k].category_id : k \in DOMAIN o} |->
        LET subs == SelectSeq(TextOrder, LAMBDA s :
                        \E k \in DOMAIN o : o[k].category_id = cat /\ o[k].subcategory = s)
        IN  [n \in DOMAIN subs |-> GroupOf(o, cat, subs[n])] ]

\* The empty mapping {}
EmptyMapping == [cat \in {} |-> <<>>]

\* The statements of GET /api/comics/grouped at which the store may fail
GroupedFails == {"none", "exists", "select"}

\* GET /api/comics/grouped of src/server.js: a missing table and every
\* error are answered with the empty mapping
ListGroupedServer(fail, o) ==
    /\ impl = "server"
    /\ IF fail = "exists"
       THEN resp' = [op |-> "grouped", status |-> 200, msg |-> "", err |-> TRUE, body |-> EmptyMapping]
       ELSE IF ~db.categoriesTable \/ ~db.comicsTable
       THEN resp' = [op |-> "grouped", status |-> 200, msg |-> "", err |-> FALSE, body |-> EmptyMapping]
       ELSE IF fail = "select"
       THEN resp' = [op |-> "grouped", status |-> 200, msg |-> "", err |-> TRUE, body |-> EmptyMapping]
       ELSE resp' = [op |-> "grouped", status |-> 200, msg |-> "", err |-> FALSE, body |-> GroupedData(o)]

\* GET /api/comics/grouped of src/unnamed/part_000: every error is answered
\* 500
ListGroupedPart000(fail, o) ==
    /\ impl = "part000"
    /\ fail # "exists"
    /\ IF fail = "select" \/ ~db.categoriesTable \/ ~db.comicsTable
       THEN resp' = [op |-> "grouped", status |-> 500, msg |-> GenericError, err |-> TRUE, body |-> EmptyMapping]
       ELSE resp' = [op |-> "grouped", status |-> 200, msg |-> "", err |-> FALSE, body |-> GroupedData(o)]

\* GET /api/comics/grouped; o is the order in which the aggregate takes the
\* joined rows
ListGrouped(fail) ==
    /\ PoolFree
    /\ \E o \in ItemOrders(impl, JoinedRows(impl, db)) :
          ListGroupedServer(fail, o) \/ ListGroupedPart000(fail, o)
    /\ UNCHANGED <<runs, impl, db, clock, checkedOut>>

-----------------------------------------------------------------------------
(* The read handlers on a store that may lack its tables *)

ReadBodies ==
    { MkBody("A", "ngon", Undef, Undef, Undef, Undef, Undef),
      MkBody("b", "ngon", "s", "5", Undef, Undef, Undef),
      MkBody("A", "ngon", "s", "0", Undef, Undef, Undef),
      MkBody("A", "zz", Undef, Undef, Undef, Undef, Undef) }

ReadQueries ==
    { [category |-> Undef, search |-> Undef, page |-> Undef, limit |-> Undef],
      [category |-> "ngon", search |-> Undef, page |-> "1", limit |-> "1"],
      [category |-> Undef, search |-> "a", page |-> "0", limit |-> "1"],
      [category |-> Undef, search |-> Undef, page |-> "1", limit |-> "x"] }

\* initializeDatabase meets no store failure here; the read handlers do
NextRead ==
    \/ InitializeDatabase(NoFail)
    \/ Tick
    \/ \E b \in ReadBodies, id \in GenIds : CreateComic(b, id, FALSE)
    \/ \E fail \in CategoriesFails : ListCategories(fail, NoFail)
    \/ \E q \in ReadQueries, fail \in ListFails : ListComics(q, fail)
    \/ \E fail \in GroupedFails : ListGrouped(fail)
    \/ \E fail \in StatsFails : GetStats(fail)

SpecRead == Init /\ [][NextRead]_vars

\* Every route of the server, over all the inputs above
-----------------------------------------------------------------------------
(* GET /api/stats among the requests that write *)

StatsBodies ==
    { MkBody("A", "ngon", "s", "5", Undef, Undef, Undef),
      MkBody("b", "ngon", "s", Undef, Undef, Undef, Undef) }

StatsChapters == {"7", "0"}

NextStats ==
    \/ ProvisionComics
    \/ InitializeDatabase(NoFail)
    \/ \E b \in StatsBodies, id \in GenIds : CreateComic(b, id, FALSE)
    \/ \E id \in GenIds, ch \in StatsChapters : PatchChapter(id, ch, FALSE)
    \/ \E id \in GenIds : DeleteComic(id, FALSE)
    \/ BulkImport([isArray |-> TRUE, items |-> <<UpsertEntry(3)>>], <<"c2", "c2", "c2">>, 0)
    \/ StatsBegin
    \/ StatsTotal
    \/ StatsReading
    \/ StatsCategories

SpecStats == Init /\ [][NextStats]_vars

-----------------------------------------------------------------------------
(* Two executions of initializeDatabase at once *)

NextInitRace ==
    \/ \E r \in InitRunIds : InitStart(r)
    \/ \E r \in InitRunIds : InitConnect(r)
    \/ \E r \in InitRunIds : InitCreateCategories(r)
    \/ \E r \in InitRunIds : InitCreateComics(r)
    \/ \E r \in InitRunIds : InitCount(r)
    \/ \E r \in InitRunIds : InitSeed(r)
    \/ \E r \in InitRunIds : InitFkey(r)
    \/ LazyAnswer
    \/ \E b \in SchemaBodies, id \in GenIds : CreateComic(b, id, FALSE)

SpecInitRace == Init /\ [][NextInitRace]_vars

-----------------------------------------------------------------------------
(* PUT requests on one comic at once *)

PutSeedBodies == { MkBody("A", "ngon", "s", "5", "bad", "[]", "ab") }

\* Bodies of PUT /api/comics/:id: chapter alone (twice, with two values),
\* rating and description alone
PutBodies ==
    { MkPartial("7", Undef, Undef, Undef, Undef),
      MkPartial("9", Undef, Undef, Undef, Undef),
      MkPartial(Undef, "good", Undef, Undef, "d") }

PutIds == {"c1", "c3"}

NextPutRace ==
    \/ InitializeDatabase(NoFail)
    \/ Tick
    \/ \E b \in PutSeedBodies : CreateComic(b, "c1", FALSE)
    \/ \E id \in PutIds, p \in PutBodies : PutReceive(id, p)
    \/ \E n \in 1..MaxPuts : PutExecute(n)

SpecPutRace == Init /\ [][NextPutRace]_vars

Next ==
    NextSchema \/ NextCrud \/ NextImport \/ NextUpsert \/ NextList \/ NextRead \/ NextStats
    \/ NextInitRace \/ NextPutRace

Spec == Init /\ [][Next]_vars

-----------------------------------------------------------------------------
(* Properties of the comic resource *)

\* A step that serves a request: Tick alone moves the clock
RequestStep == clock' = clock

\* The rows of store d that carry comic_id id
RowsWithId(d, id) == {c \in d.comics : c.comic_id = id}

\* The columns of a comic row
ComicFields ==
    { "comic_id", "title", "category_id", "subcategory", "chapter", "rating",
      "tags", "description", "last_updated", "created_at" }

\* The request body of an update supplies column F
Supplied(p, F) == F \in DOMAIN p /\ p[F] # Undef

\* The pairs (title, category_id) of the entries of an import request
ImportedPairs(items) ==
    {<<items[k].title, items[k].category_id>> : k \in 1..Len(items)}

\* The chapter of the last entry of the request for a pair
LastChapter(items, pair) ==
    LET ks == {k \in 1..Len(items) : <<items[k].title, items[k].category_id>> = pair}
        last == CHOOSE k \in ks : \A j \in ks : j <= k
    IN  items[last].chapter

\* C2 (as claimed): bulkImport is an upsert keyed on (title, category_id). On
\* a store created by initializeDatabase, an import call whose statements
\* the store does not fail succeeds, and afterwards the store holds exactly
\* one comic row for every (title, category_id) pair of the call, carrying
\* the chapter of the last entry imported for that pair.
C2_ImportIsUpsert ==
    (resp.op = "import" /\ IsArray(resp.req) /\ ~resp.fault /\ db.comicsTable)
    => /\ resp.status = 200
       /\ \A pair \in ImportedPairs(resp.req.items) :
            LET rows == {c \in db.comics : <<c.title, c.category_id>> = pair}
            IN  /\ Cardinality(rows) = 1
                /\ \A c \in rows : c.chapter = LastChapter(resp.req.items, pair)

\* C3: updateComic(id, partial) on an existing comic leaves every column the
\* request omits (comic_id, category_id, subcategory and created_at among
\* them) as it was, leaves every other row as it was, and the getComic that
\* follows returns the stored row; so updateComic(id, {chapter}) changes
\* chapter and last_updated only.
C3_UpdateKeepsOmittedFields ==
    [][ /\ (resp'.op = "update" /\ resp'.status = 200)
           => /\ RowsWithId(db, resp'.id) # {}
              /\ Cardinality(db'.comics) = Cardinality(db.comics)
              /\ \A c \in db.comics : c.comic_id # resp'.id => c \in db'.comics
              /\ \A old \in RowsWithId(db, resp'.id) :
                   \E new \in RowsWithId(db', resp'.id) :
                      \A F \in ComicFields \ {"last_updated"} :
                         ~Supplied(resp'.req, F) => new[F] = old[F]
        /\ (resp'.op = "get" /\ resp'.status = 200)
           => resp'.body = RowsWithId(db, resp'.id) /\ db' = db
      ]_vars

\* C3 witness: an update that supplied chapter alone was served on a row
\* created earlier with non-default values, which now carries the new
\* chapter next to its old values
C3_Witness ==
    /\ resp.op = "update" /\ resp.status = 200
    /\ resp.req = MkPartial("7", Undef, Undef, Undef, Undef)
    /\ \E c \in RowsWithId(db, resp.id) :
          /\ c.chapter = "7" /\ c.rating = "good" /\ c.tags = "{t}"
          /\ c.subcategory = "s" /\ c.created_at < c.last_updated
    /\ Cardinality(db.comics) = 2

C5_DeleteThenNotFound ==
    [][ RequestStep =>
        /\ (resp'.op = "delete" /\ resp'.status = 204)
           => /\ RowsWithId(db, resp'.id) # {}
              /\ db' = [db EXCEPT !.comics = {c \in @ : c.comic_id # resp'.id}]
        /\ ( /\ resp.op = "delete" /\ resp.status = 204
             /\ resp'.op \in {"get", "delete"} /\ resp'.id = resp.id
             /\ ~resp'.err )
           => resp'.status = 404 ]_vars

\* C5 witness: a delete was answered 204, its row is gone and another row
\* is still in the table
C5_Witness ==
    /\ resp.op = "delete" /\ resp.status = 204
    /\ RowsWithId(db, resp.id) = {} /\ db.comics # {}

\* C6 (as claimed): createComic answers 400 exactly to the inputs whose
\* title or category_id is missing or empty, and such an input inserts no
\* row (requests at which a store statement raises set aside).
C6_CreateValidates ==
    [][ (RequestStep /\ resp'.op = "create" /\ ~resp'.err)
        => /\ (Falsy(resp'.req.title) \/ Falsy(resp'.req.category_id))
              => (resp'.status = 400 /\ db' = db)
           /\ ~(Falsy(resp'.req.title) \/ Falsy(resp'.req.category_id))
              => resp'.status # 400 ]_vars

-----------------------------------------------------------------------------
(* Properties of the schema manager and the read-only resources *)

\* C1 (as claimed): listCategories never answers with an error; whenever a
\* store statement of it raises, the answer is a success carrying exactly
\* the default category list.
C1_CategoriesNeverFail ==
    resp.op = "categories"
    => /\ resp.status = 200
       /\ resp.err => resp.body = DefaultCategories

\* C8 (as claimed): whenever the store serves its statements, getStats
\* answers with totalItems = the number of comic rows, readingCount = the
\* number of comic rows whose chapter is neither null, empty nor "0", and
\* totalCategories = the number of category rows, or the default list's
\* length when the category table is absent.
C8_StatsCounts ==
    (resp.op = "stats" /\ ~resp.fault)
    => /\ resp.status = 200
       /\ resp.body.totalItems = Cardinality(db.comics)
       /\ resp.body.readingCount =
             Cardinality({c \in db.comics : c.chapter \notin {Null, "", "0"}})
       /\ resp.body.totalCategories =
             IF db.categoriesTable THEN Len(db.categories) ELSE 16

\* C9 (as claimed): every client taken from the pool is released on every
\* exit path, so between requests no client is checked out.
C9_ConnectionsReleased == checkedOut = 0

\* s is the beginning of t
IsPrefix(s, t) == Len(s) <= Len(t) /\ SubSeq(t, 1, Len(s)) = s

\* C10: initializeDatabase is idempotent (on a store it has just left
\* without a store failure, another run changes nothing); it seeds the
\* default categories only into an empty category table and leaves a
\* non-empty one, a partially seeded one included, untouched; it never
\* makes two rows with one category_id, never removes a table, and never
\* changes or removes a comic or category row.
C10_EnsureSchemaIdempotent ==
    [][ (RequestStep /\ resp'.op \in {"init", "categories"})
        => /\ db'.comics = db.comics
           /\ IsPrefix(db.categories, db'.categories)
           /\ Len(db.categories) > 0 => db'.categories = db.categories
           /\ Cardinality(Range(db'.categories)) = Len(db'.categories)
           /\ db.categoriesTable => db'.categoriesTable
           /\ db.comicsTable => db'.comicsTable
           /\ (resp'.op = "init" /\ resp'.fail = NoFail)
              => /\ InitDb(impl, db', NoFail) = db'
                 /\ db'.categoriesTable /\ db'.comicsTable
                 /\ Len(db.categories) = 0 => db'.categories = DefaultCategories
      ]_vars

\* C10 witness: a run of initializeDatabase without store failure has just
\* ended on a partially seeded category table and on comic rows, and left
\* both as they were
C10_Witness ==
    /\ resp.op = "init" /\ resp.fail = NoFail
    /\ Len(db.categories) = 8
    /\ db.comics # {}

-----------------------------------------------------------------------------
(* Properties of the comic listing *)

\* Row c satisfies every filter the query supplies
SatisfiesFilters(c, q) ==
    /\ ~Falsy(q.category) => c.category_id = q.category
    /\ ~Falsy(q.search) => (ILike(c.title, q.search) \/ ILike(c.description, q.search))

\* The rows of store d that satisfy every filter of q
Matching(d, q) == {c \in d.comics : SatisfiesFilters(c, q)}

\* The sequences that hold each row of rows once, last_updated descending
SortedSeqs(rows) ==
    {o \in [1..Cardinality(rows) -> rows] :
        /\ Range(o) = rows
        /\ \A i \in 1..(Len(o) - 1) : o[i].last_updated >= o[i + 1].last_updated}

\* The elements of o at the positions of the window [offset, offset+limit),
\* counted from 0, with offset = (page-1)*limit
PageOfSeq(o, q) ==
    LET offset == (PageOf(q) - 1) * LimitOf(impl, q)
        inside == {k \in 1..Len(o) : offset <= k - 1 /\ k - 1 < offset + LimitOf(impl, q)}
        first == IF offset < 0 THEN 0 ELSE offset
    IN  [k \in 1..Cardinality(inside) |-> o[first + k]]

\* page and limit are absent or numbers
Numeric(q) ==
    /\ q.page \in {Undef, "0", "1", "2", "3"}
    /\ q.limit \in {Undef, "0", "1", "2", "3"}

\* Two served list requests with the same filters and limit, for a page and
\* the page after it
NextPage(r1, r2) ==
    /\ r1.op = "list" /\ ~r1.err /\ r1.status = 200
    /\ r2.op = "list" /\ ~r2.err /\ r2.status = 200
    /\ r1.req.category = r2.req.category /\ r1.req.search = r2.req.search
    /\ r1.req.limit = r2.req.limit
    /\ PageOf(r2.req) = PageOf(r1.req) + 1

\* No two rows of the set share a last_updated
DistinctTimes(rows) ==
    \A c1, c2 \in rows : c1 # c2 => c1.last_updated # c2.last_updated

\* C7 (as claimed): a served listComics(filter) with numeric page and limit
\* returns exactly the window
\* [offset, offset+limit), offset = (page-1)*limit, of the sequence of the
\* comics satisfying every supplied filter, sorted by last_updated
\* descending; and with no write in between, a page and the page after it
\* are consecutive windows of that one sequence.
C7_PagesOfOneSequence ==
    [][ ( /\ RequestStep
          /\ resp'.op = "list" /\ ~resp'.err /\ resp'.status = 200
          /\ Numeric(resp'.req) )
        => /\ \E o \in SortedSeqs(Matching(db, resp'.req)) :
                 resp'.body = PageOfSeq(o, resp'.req)
           /\ NextPage(resp, resp')
              => \E o \in SortedSeqs(Matching(db, resp'.req)) :
                    /\ resp.body = PageOfSeq(o, resp.req)
                    /\ resp'.body = PageOfSeq(o, resp'.req)
      ]_vars

\* C7 (where the timestamps differ): a served listComics(filter) with numeric page and limit
\* returns the window
\* [offset, offset+limit), offset = (page-1)*limit, of a sequence of the
\* comics satisfying every supplied filter, sorted by last_updated
\* descending (rows with equal last_updated in an order the store chooses
\* call by call); with no write in between, a page and the page after it
\* are consecutive windows of one sequence when the matching rows have
\* pairwise distinct last_updated.
C7_PagesWhenTimesDistinct ==
    [][ ( /\ RequestStep
          /\ resp'.op = "list" /\ ~resp'.err /\ resp'.status = 200
          /\ Numeric(resp'.req) )
        => /\ \E o \in SortedSeqs(Matching(db, resp'.req)) :
                 resp'.body = PageOfSeq(o, resp'.req)
           /\ (NextPage(resp, resp') /\ DistinctTimes(Matching(db, resp'.req)))
              => \E o \in SortedSeqs(Matching(db, resp'.req)) :
                    /\ resp.body = PageOfSeq(o, resp.req)
                    /\ resp'.body = PageOfSeq(o, resp'.req)
      ]_vars

\* Reached under SpecList: page 2 of limit 1 with both filters supplied was served and
\* holds the older of the two rows that match
C7_Witness ==
    /\ resp.op = "list" /\ resp.status = 200 /\ ~resp.err
    /\ resp.req = [category |-> "ngon", search |-> "a", page |-> "2", limit |-> "1"]
    /\ Len(resp.body) = 1
    /\ Cardinality(Matching(db, resp.req)) = 2
    /\ \A c \in db.comics : c # resp.body[1] => c.last_updated > resp.body[1].last_updated

-----------------------------------------------------------------------------
(* Properties of the read handlers on a store that lacks tables *)

\* The read handlers
ReadOps == {"categories", "list", "grouped", "stats"}

\* The store d lacks a table the read handler op needs
RequiredTableMissing(op, d) ==
    CASE op = "categories" -> ~d.categoriesTable
      [] op = "list" -> ~d.comicsTable
      [] OTHER -> ~d.categoriesTable \/ ~d.comicsTable

\* C11 (as claimed): a read handler (listCategories, listComics, listGrouped,
\* getStats) that finds a table it needs missing invokes initializeDatabase:
\* after such a request on a store that raised at none of its statements,
\* both tables exist and the default categories are in the category table.
C11_ReadsEnsureSchema ==
    [][ ( /\ RequestStep
          /\ resp'.op \in ReadOps
          /\ ~resp'.err
          /\ RequiredTableMissing(resp'.op, db) )
        => /\ db'.categoriesTable /\ db'.comicsTable
           /\ Range(DefaultCategories) \subseteq Range(db'.categories) ]_vars

\* C12 (as claimed): listComics and listGrouped never answer with an error:
\* they answer 200, and with the empty sequence or the empty mapping when a
\* statement raised or a table they need is missing.
C12_ListsNeverFail ==
    (resp.op \in {"list", "grouped"})
    => /\ resp.status = 200
       /\ (resp.err \/ RequiredTableMissing(resp.op, db)) => DOMAIN resp.body = {}

-----------------------------------------------------------------------------
(* Properties of the bulk import on a store with the unique index *)

\* Entry e of an import request names the pair (title, category_id) of row c
SamePair(e, c) == ToSql(e.title) = c.title /\ ToSql(e.category_id) = c.category_id

\* The last of the entries 1..n of items that names the pair of entry j
LastOfPair(items, n, j) ==
    CHOOSE k \in 1..n :
        /\ items[k].title = items[j].title /\ items[k].category_id = items[j].category_id
        /\ \A m \in 1..n :
              (items[m].title = items[j].title /\ items[m].category_id = items[j].category_id)
              => m <= k

\* The pairs the entries 1..n name that no row of store d holds
NewPairs(d, items, n) ==
    { <<items[j].title, items[j].category_id>> : j \in
        {j \in 1..n : \A c \in d.comics : ~SamePair(items[j], c)} }

\* C13: bulkImport runs its entries one statement after the other, outside
\* any transaction: when the statement of entry k raises, the answer is the
\* generic 500 without anything about the entries that went through, the
\* effects of the entries 1..k-1 stay in the store, and no entry from k on
\* is applied.
C13_ImportStopsAtFailure ==
    [][ (RequestStep /\ resp'.op = "import" /\ resp'.status = 500)
        => LET items == resp'.req.items
               k == resp'.done + 1
           IN  /\ k \in 1..Len(items)
               /\ resp'.msg = GenericError /\ resp'.imported = 0
               /\ \A j \in 1..(k - 1) :
                    \E c \in db'.comics :
                       /\ SamePair(items[j], c)
                       /\ c.chapter = ToSql(items[LastOfPair(items, k - 1, j)].chapter)
                       /\ c.last_updated = clock
               /\ \A c \in db'.comics :
                    c \in db.comics \/ \E j \in 1..(k - 1) : SamePair(items[j], c)
               /\ \A c \in db.comics :
                    c \in db'.comics \/ \E j \in 1..(k - 1) : SamePair(items[j], c)
               /\ Cardinality(db'.comics) =
                     Cardinality(db.comics) + Cardinality(NewPairs(db, items, k - 1))
      ]_vars

\* C13 witness: an import of three entries was answered 500 at its second
\* entry (no title); the first entry is in the store, the third is not
C13_Witness ==
    /\ resp.op = "import" /\ resp.status = 500 /\ resp.done = 1
    /\ Len(resp.req.items) = 3
    /\ \E c \in db.comics : SamePair(resp.req.items[1], c) /\ c.chapter = "3"
    /\ \A c \in db.comics : ~SamePair(resp.req.items[3], c)

\* C14: an import entry that conflicts with an existing row on (title,
\* category_id) changes chapter, rating and last_updated of that row only:
\* comic_id, title, category_id, subcategory, tags, description and
\* created_at stay those of the original row (the generated comic_id is
\* dropped), chapter and rating become the entry's, and the table grows
\* only by the pairs that were not in it.
C14_ConflictKeepsOriginalRow ==
    [][ (RequestStep /\ resp'.op = "import" /\ IsArray(resp'.req))
        => LET items == resp'.req.items
               n == resp'.done
           IN  /\ \A old \in db.comics :
                    \E new \in db'.comics :
                       /\ \A F \in ComicFields \ {"chapter", "rating", "last_updated"} :
                             new[F] = old[F]
                       /\ \A j \in 1..n :
                             SamePair(items[j], old) =>
                                /\ new.chapter = ToSql(items[LastOfPair(items, n, j)].chapter)
                                /\ new.rating =
                                      OrElse(items[LastOfPair(items, n, j)].rating, "none")
                                /\ new.last_updated = clock
                       /\ (\A j \in 1..n : ~SamePair(items[j], old)) => new = old
               /\ Cardinality(db'.comics) =
                     Cardinality(db.comics) + Cardinality(NewPairs(db, items, n))
      ]_vars

\* C14 witness: an import was served whose entry met the row created
\* earlier for its pair; the row has the entry's chapter and rating next to
\* its own subcategory, tags and creation time
C14_Witness ==
    /\ resp.op = "import" /\ resp.status = 200
    /\ \E c \in db.comics :
          /\ c.title = "A" /\ c.category_id = "ngon"
          /\ c.chapter = "2" /\ c.rating = "bad"
          /\ c.subcategory = "s" /\ c.tags = "{t}" /\ c.description = "ab"
          /\ c.created_at < c.last_updated

-----------------------------------------------------------------------------
(* Properties of the error answers *)

\* C15 (as claimed): no response of any endpoint carries internal error
\* text: when a store operation fails, the body is a safe default value or
\* a fixed generic message, never the message of the exception.
C15_NoInternalErrorText ==
    /\ resp.msg # ErrorText
    /\ resp.err => resp.msg \in {GenericError, ""}

-----------------------------------------------------------------------------
(* Properties of the grouped listing *)

\* The places <<category, group, item>> of a grouped body at which the
\* comic id appears
GroupedPlaces(body, id) ==
    {p \in {<<cat, n, k>> : cat \in DOMAIN body, n \in 1..Cardinality(db.comics),
                           k \in 1..Cardinality(db.comics)} :
        /\ p[2] \in DOMAIN body[p[1]]
        /\ p[3] \in DOMAIN body[p[1]][p[2]].items
        /\ body[p[1]][p[2]].items[p[3]].id = id}

\* C16: in every successful answer of GET /api/comics/grouped each comic of
\* the store appears in exactly one group, the groups of one category_id
\* have pairwise distinct subcategory values, and the items of each group
\* are ordered by title.
C16_GroupedPartition ==
    (resp.op = "grouped" /\ resp.status = 200 /\ ~resp.err) =>
        /\ \A c \in db.comics : Cardinality(GroupedPlaces(resp.body, c.comic_id)) = 1
        /\ \A cat \in DOMAIN resp.body : \A m, n \in DOMAIN resp.body[cat] :
              m # n => resp.body[cat][m].subcategory # resp.body[cat][n].subcategory
        /\ \A cat \in DOMAIN resp.body : \A n \in DOMAIN resp.body[cat] :
              \A j, k \in DOMAIN resp.body[cat][n].items :
                 j < k => TextRank(resp.body[cat][n].items[j].title)
                            <= TextRank(resp.body[cat][n].items[k].title)

-----------------------------------------------------------------------------
(* Properties of the statistics *)

\* C17: every answer of GET /api/stats has readingCount <= totalItems, also
\* when create, delete, patch and import requests commit between the
\* handler's count queries.
C17_ReadingWithinTotal ==
    (resp.op = "stats" /\ resp.status = 200) =>
        resp.body.readingCount <= resp.body.totalItems

-----------------------------------------------------------------------------
(* Properties of interleaved initialisations *)

InitOver(r) == initRuns[r].pc \in {"done", "answered"}

InitInFlight(r) == initRuns[r].pc \notin {"idle", "done", "answered", "aborted"}

\* C18: when two executions of initializeDatabase interleave (the one at
\* process start and the lazy one of GET /api/categories, both reading a
\* count of 0 before either inserts), neither aborts, and when they are
\* over the categories table holds exactly the 16 seed rows, one per
\* category_id.
C18_InterleavedInitSeedsOnce ==
    /\ \A r \in InitRunIds : initRuns[r].pc # "aborted"
    /\ ((\E r \in InitRunIds : InitOver(r)) /\ (\A r \in InitRunIds : ~InitInFlight(r))) =>
          /\ Len(db.categories) = Len(DefaultCategories)
          /\ \A j \in DOMAIN DefaultCategories :
                Cardinality({k \in DOMAIN db.categories :
                                db.categories[k] = DefaultCategories[j]}) = 1

\* Both executions read the count 0, both went through the seeding loop,
\* and both are over
C18_Witness ==
    \A r \in InitRunIds :
       /\ InitOver(r)
       /\ initRuns[r].count = 0
       /\ initRuns[r].k = Len(DefaultCategories)

-----------------------------------------------------------------------------
(* Properties of concurrent updates *)

PutFields == {"chapter", "rating", "title", "tags", "description"}

\* The parameter the statement receives for column f of body p
PutParam(p, f) == IF f = "tags" THEN PgArray(p.tags) ELSE ToSql(p[f])

\* The columns body p supplies
PutSupplied(p) == {f \in PutFields : PutParam(p, f) # Null}

\* The n-th request was answered 200
PutTookPlace(n) == putRuns[n].pc = "done" /\ putRuns[n].status = 200

\* C19: PUT requests on the same comic_id that supply disjoint sets of
\* fields all take effect, in whatever order their statements run: after
\* they are answered the row carries, for every field, the value of the
\* request that supplied it.
C19_DisjointUpdatesBothApply ==
    \A n \in DOMAIN putRuns : \A f \in PutSupplied(putRuns[n].req) :
       ( /\ PutTookPlace(n)
         /\ \A m \in DOMAIN putRuns \ {n} :
               (PutTookPlace(m) /\ putRuns[m].id = putRuns[n].id)
                  => f \notin PutSupplied(putRuns[m].req) )
       => \A c \in RowsById(db, putRuns[n].id) : c[f] = PutParam(putRuns[n].req, f)

\* Two requests on the same comic with disjoint fields were in flight
\* together, the later one's statement ran first, and both were answered 200
C19_Witness ==
    /\ Len(putRuns) >= 2
    /\ PutTookPlace(1) /\ PutTookPlace(2)
    /\ putRuns[1].id = putRuns[2].id
    /\ PutSupplied(putRuns[1].req) # {} /\ PutSupplied(putRuns[2].req) # {}
    /\ PutSupplied(putRuns[1].req) \cap PutSupplied(putRuns[2].req) = {}
    /\ putRuns[2].order < putRuns[1].order
    /\ RowsById(db, putRuns[1].id) # {}

====
